---- MODULE Spec2Model ----
(***************************************************************************)
(* A model of the sermmde PMX decoder: the header decoder of pmx.rs and    *)
(* the section decoders of vertex.rs, surface.rs, texture.rs and           *)
(* material.rs, with the codecs of types.rs and util.rs they use.          *)
(*                                                                         *)
(* One behaviour is one call of one public decoder on one byte stream.     *)
(* The stream is an input: each read_exact draws the bytes it returns (or  *)
(* the end of the stream) when it happens, so the cursor position `pos`    *)
(* and the bytes of the last read `buf` are all the model keeps of it.     *)
(* One action is one read_exact together with the computation that follows *)
(* it up to the next read or the return.                                   *)
(*                                                                         *)
(* Allocation (Vec::with_capacity, vec![0; n]) is taken to succeed.        *)
(***************************************************************************)
EXTENDS Integers, Sequences, FiniteSets, TLC

(***************************************************************************)
(* Bounds of the model.                                                    *)
(***************************************************************************)
\* a stream holds at most this many complete records of a section
MaxRecords == 2
\* a stream holds at most this many bytes of one text
MaxTextLen == 2
\* a stream holds at most this many global parameters beyond the eight
MaxExtraGlobals == 1
\* the extra_vec4_count arguments tried are 0..MaxExtraVec4
MaxExtraVec4 == 1

(***************************************************************************)
(* Bytes and the fixed-width little-endian integers.                       *)
(***************************************************************************)
Byte == 0..255

\* i8::from_le_bytes / u8::from_le_bytes / i16 / u16 / i32, as the i32 they are cast to
I8FromLe(b) == IF b[1] >= 128 THEN b[1] - 256 ELSE b[1]

U8FromLe(b) == b[1]

I16FromLe(b) == b[1] + 256 * (IF b[2] >= 128 THEN b[2] - 256 ELSE b[2])

U16FromLe(b) == b[1] + 256 * b[2]

I32FromLe(b) ==
    b[1] + 256 * b[2] + 65536 * b[3]
         + 16777216 * (IF b[4] >= 128 THEN b[4] - 256 ELSE b[4])

\* a check that lets -1 through
is_below_minus_one(n) == n < 0 - 1

\* i32::is_negative
is_negative(n) == n < 0

(***************************************************************************)
(* f32.  A float is its three bit fields: sign s, biased exponent e and    *)
(* fraction m, so that from_le_bytes is the decoding of the 32 bits.       *)
(***************************************************************************)
F32FromLe(b) ==
    [s |-> b[4] \div 128,
     e |-> (b[4] % 128) * 2 + (b[3] \div 128),
     m |-> (b[3] % 128) * 65536 + b[2] * 256 + b[1]]

Pow2(n) == 2 ^ n

F32One == [s |-> 0, e |-> 127, m |-> 0]

F32IsNaN(x) == x.e = 255 /\ x.m # 0

F32IsInf(x) == x.e = 255 /\ x.m = 0

F32IsZero(x) == x.e = 0 /\ x.m = 0

\* a finite float is (-1)^s * F32Sig * 2^F32Exp
F32Sig(x) == IF x.e = 0 THEN x.m ELSE 8388608 + x.m

F32Exp(x) == IF x.e = 0 THEN 0 - 149 ELSE x.e - 150

F32Neg(x) == [x EXCEPT !.s = 1 - x.s]

\* the number of bits of n > 0
RECURSIVE BitLen(_)
BitLen(n) == IF n = 0 THEN 0 ELSE 1 + BitLen(n \div 2)

\* n / 2^k with the bits shifted out OR-ed into the lowest bit (sticky)
ShiftRightSticky(n, k) ==
    IF k >= 31 THEN (IF n # 0 THEN 1 ELSE 0)
    ELSE LET q == n \div Pow2(k)
             r == n % Pow2(k)
         IN  IF r # 0 /\ q % 2 = 0 THEN q + 1 ELSE q

\* round v * 2^x (v > 0) to the nearest f32, ties to even
F32Round(sign, v, x) ==
    LET len   == BitLen(v)
        ulp   == IF x + len - 24 < 0 - 149 THEN 0 - 149 ELSE x + len - 24
        shift == ulp - x
        q     == IF shift > 0 THEN v \div Pow2(shift) ELSE v * Pow2(0 - shift)
        r     == IF shift > 0 THEN v % Pow2(shift) ELSE 0
        half  == IF shift > 0 THEN Pow2(shift - 1) ELSE 1
        up    == shift > 0 /\ (r > half \/ (r = half /\ q % 2 = 1))
        q1    == IF up THEN q + 1 ELSE q
        sig   == IF q1 = 16777216 THEN 8388608 ELSE q1
        ex    == IF q1 = 16777216 THEN ulp + 1 ELSE ulp
    IN  IF sig < 8388608 THEN [s |-> sign, e |-> 0, m |-> sig]
        ELSE IF ex + 150 >= 255 THEN [s |-> sign, e |-> 255, m |-> 0]
        ELSE [s |-> sign, e |-> ex + 150, m |-> sig - 8388608]

\* x + y for finite x and y, rounded to nearest even
F32AddFinite(x, y) ==
    LET big   == IF F32Exp(x) >= F32Exp(y) THEN x ELSE y
        small == IF F32Exp(x) >= F32Exp(y) THEN y ELSE x
        d     == F32Exp(big) - F32Exp(small)
        a     == F32Sig(big) * 8
        b     == ShiftRightSticky(F32Sig(small) * 8, d)
        sum   == IF big.s = small.s THEN a + b ELSE a - b
        sign  == IF sum < 0 THEN small.s ELSE big.s
        mag   == IF sum < 0 THEN 0 - sum ELSE sum
    IN  IF mag = 0
        THEN [s |-> IF x.s = 1 /\ y.s = 1 THEN 1 ELSE 0, e |-> 0, m |-> 0]
        ELSE F32Round(sign, mag, F32Exp(big) - 3)

\* the NaNs an operation on a NaN operand x may produce: the bit pattern of a
\* NaN result is not fixed by the language
F32NaNs(x) ==
    {[s |-> 0, e |-> 255, m |-> 4194304], [s |-> 1, e |-> 255, m |-> 4194304]}
    \cup (IF F32IsNaN(x)
          THEN {[x EXCEPT !.m = 4194304 + (x.m % 4194304)]}
          ELSE {})

\* the possible results of the f32 subtraction a - b
F32Sub(a, b) ==
    IF F32IsNaN(a) THEN F32NaNs(a)
    ELSE IF F32IsNaN(b) THEN F32NaNs(b)
    ELSE IF F32IsInf(a) /\ F32IsInf(b)
         THEN (IF a.s = b.s THEN F32NaNs(a) ELSE {a})
    ELSE IF F32IsInf(a) THEN {a}
    ELSE IF F32IsInf(b) THEN {F32Neg(b)}
    ELSE {F32AddFinite(a, F32Neg(b))}

(***************************************************************************)
(* Text.  A String is the sequence of its Unicode scalar values.           *)
(***************************************************************************)
IsCont(b) == b >= 128 /\ b <= 191

\* the length of the well-formed UTF-8 sequence that starts b, or 0
Utf8SeqLen(b, i) ==
    LET n    == Len(b) - i + 1
        b0   == b[i]
        c(k) == i + k <= Len(b) /\ IsCont(b[i + k])
    IN  IF b0 < 128 THEN 1
        ELSE IF b0 >= 194 /\ b0 <= 223 THEN (IF c(1) THEN 2 ELSE 0)
        ELSE IF b0 >= 224 /\ b0 <= 239
             THEN (IF n >= 3 /\ c(1) /\ c(2)
                      /\ (b0 = 224 => b[i + 1] >= 160)
                      /\ (b0 = 237 => b[i + 1] <= 159)
                   THEN 3 ELSE 0)
        ELSE IF b0 >= 240 /\ b0 <= 244
             THEN (IF n >= 4 /\ c(1) /\ c(2) /\ c(3)
                      /\ (b0 = 240 => b[i + 1] >= 144)
                      /\ (b0 = 244 => b[i + 1] <= 143)
                   THEN 4 ELSE 0)
        ELSE 0

\* the scalar value of the well-formed sequence of k bytes at i
Utf8Scalar(b, i, k) ==
    IF k = 1 THEN b[i]
    ELSE IF k = 2 THEN (b[i] % 32) * 64 + (b[i + 1] % 64)
    ELSE IF k = 3 THEN (b[i] % 16) * 4096 + (b[i + 1] % 64) * 64 + (b[i + 2] % 64)
    ELSE (b[i] % 8) * 262144 + (b[i + 1] % 64) * 4096
         + (b[i + 2] % 64) * 64 + (b[i + 3] % 64)

\* str::from_utf8(b) followed by to_string: ok is FALSE on a Utf8Error
RECURSIVE Utf8From(_, _)
Utf8From(b, i) ==
    IF i > Len(b) THEN [ok |-> TRUE, str |-> <<>>]
    ELSE LET k == Utf8SeqLen(b, i)
         IN  IF k = 0 THEN [ok |-> FALSE, str |-> <<>>]
             ELSE LET rest == Utf8From(b, i + k)
                  IN  IF rest.ok
                      THEN [ok |-> TRUE, str |-> <<Utf8Scalar(b, i, k)>> \o rest.str]
                      ELSE rest

from_utf8(b) == Utf8From(b, 1)

\* the u16 code units of an even number of bytes, little-endian
Utf16Units(b) == [j \in 1..(Len(b) \div 2) |-> b[2 * j - 1] + 256 * b[2 * j]]

IsHighSurrogate(u) == u >= 55296 /\ u <= 56319

IsLowSurrogate(u) == u >= 56320 /\ u <= 57343

\* String::from_utf16 / char::decode_utf16 on the code units u from index i
RECURSIVE Utf16From(_, _)
Utf16From(u, i) ==
    IF i > Len(u) THEN [ok |-> TRUE, str |-> <<>>]
    ELSE IF IsLowSurrogate(u[i]) THEN [ok |-> FALSE, str |-> <<>>]
    ELSE IF IsHighSurrogate(u[i])
         THEN IF i + 1 <= Len(u) /\ IsLowSurrogate(u[i + 1])
              THEN LET rest == Utf16From(u, i + 2)
                       sc   == 65536 + (u[i] - 55296) * 1024 + (u[i + 1] - 56320)
                   IN  IF rest.ok THEN [ok |-> TRUE, str |-> <<sc>> \o rest.str]
                       ELSE rest
              ELSE [ok |-> FALSE, str |-> <<>>]
    ELSE LET rest == Utf16From(u, i + 1)
         IN  IF rest.ok THEN [ok |-> TRUE, str |-> <<u[i]>> \o rest.str] ELSE rest

\* util::from_utf16le: the set of its possible results.  An odd length is
\* Utf16LeError.  Which of the two decoders runs depends on the alignment of
\* the buffer, so an ill-formed text fails with either decoder's error.
from_utf16le(v) ==
    IF Len(v) % 2 # 0
    THEN {[ok |-> FALSE, err |-> "Utf16LeError", str |-> <<>>]}
    ELSE LET r == Utf16From(Utf16Units(v), 1)
         IN  IF r.ok THEN {[ok |-> TRUE, err |-> "", str |-> r.str]}
             ELSE {[ok |-> FALSE, err |-> e, str |-> <<>>] :
                       e \in {"FromUtf16Error", "DecodeUtf16Error"}}

(***************************************************************************)
(* The byte streams tried.  Every read draws its bytes from one of these   *)
(* sets; a stream may also end at any read.                                *)
(***************************************************************************)
\* a 4-byte count or length: 0..small+1, a large positive value, negative values
I32Samples(small) ==
    {<<n, 0, 0, 0>> : n \in 0..(small + 1)}
    \cup {<<255, 255, 255, 127>>}
    \cup {<<255, 255, 255, 255>>, <<254, 255, 255, 255>>, <<0, 0, 0, 128>>,
          <<1, 0, 0, 128>>}

\* the bytes of the first index of a record, by width: the bounds of both readings
IndexBytes(w) ==
    IF w = 1 THEN {<<0>>, <<1>>, <<127>>, <<128>>, <<255>>}
    ELSE IF w = 2 THEN {<<0, 0>>, <<1, 2>>, <<255, 127>>, <<0, 128>>, <<255, 255>>}
    ELSE {<<0, 0, 0, 0>>, <<1, 2, 3, 4>>, <<255, 255, 255, 127>>, <<0, 0, 0, 128>>,
          <<255, 255, 255, 255>>}

\* the bytes of the later indices of a weight-deform payload
IndexBytesRest(w) == {[i \in 1..w |-> 0], [i \in 1..w |-> 255]}

\* the stored weight of Bdef2 and Sdef: 0.0, 1.0, 0.5, 0.25, 0.1, 2^-25,
\* the largest finite float, -1.0, +inf and a NaN
WeightBytes ==
    {<<0, 0, 0, 0>>, <<0, 0, 128, 63>>, <<0, 0, 0, 63>>, <<0, 0, 128, 62>>,
     <<205, 204, 204, 61>>, <<0, 0, 0, 51>>, <<255, 255, 127, 127>>,
     <<0, 0, 128, 191>>, <<0, 0, 128, 127>>, <<1, 0, 128, 127>>}

\* the bytes of a text: ASCII, UTF-8 lead and continuation bytes, and the high
\* bytes of UTF-16 surrogates
TextByte == {0, 65, 169, 195, 216, 220}

RECURSIVE SeqsOf(_, _)
SeqsOf(S, n) ==
    IF n <= 0 THEN {<<>>}
    ELSE {Append(q, x) : q \in SeqsOf(S, n - 1), x \in S}

\* the first three bytes of the tag: "PMX" and near misses
TagPrefix == {<<80, 77, 88>>, <<80, 77, 68>>, <<112, 109, 120>>, <<80, 77, 0>>,
              <<0, 77, 88>>}

TagBytes == {p \o <<b>> : p \in TagPrefix, b \in Byte}

\* version 2.0 and 2.1
VersionBytes == {<<0, 0, 0, 64>>, <<102, 102, 6, 64>>}

\* the six index-width bytes of the globals: they are not validated
WidthBytes == {<<1, 1, 1, 1, 1, 1>>, <<2, 4, 1, 2, 4, 1>>, <<0, 3, 8, 255, 5, 6>>}

\* the index-width arguments tried for the vertex and material sections
WidthSamples == {0, 1, 2, 3, 4, 5, 255}

Entries == {"Pmx::open", "Vertices::parse", "Surfaces::parse", "Textures::parse",
            "Materials::parse"}

(***************************************************************************)
(* State.                                                                  *)
(***************************************************************************)
VARIABLES
    entry,             \* the decoder that was called
    extra_vec4_count,  \* its arguments
    index_size,
    encoding,
    fill,              \* which bytes the stream holds in its uninterpreted fields
    pc,                \* the read the decoder is at
    pos,               \* bytes taken from the cursor
    buf,               \* the bytes of the last read_exact that succeeded
    last_read,         \* the read that gave them
    size,              \* the section's count
    inner_vec,         \* the records pushed so far
    len,               \* the declared length of the text or block being read
    cur,               \* the fields of the record (or header) being decoded
    wd,                \* the weight deform being decoded
    outcome,           \* "running", "Ok", "Err" or "Panic"
    err,               \* the error returned, outermost variant first
    ret                \* the value returned

vars == <<entry, extra_vec4_count, index_size, encoding, fill, pc, pos, buf,
          last_read, size, inner_vec, len, cur, wd, outcome, err, ret>>

args == <<entry, extra_vec4_count, index_size, encoding, fill>>

NoValue == <<>>

NoError == <<>>

NoDeform == [typ |-> 0 - 1, start |-> 0, indices |-> <<>>, weights |-> <<>>,
             vecs |-> <<>>]

\* the bytes of an uninterpreted field of n bytes
OpaqueBytes(n) == [i \in 1..n |-> IF fill = 0 THEN 0 ELSE (37 * i) % 256]

FirstPc(e) ==
    IF e = "Pmx::open" THEN "open_file" ELSE "count"

Init ==
    /\ entry \in Entries
    /\ extra_vec4_count \in (IF entry = "Vertices::parse" THEN 0..MaxExtraVec4 ELSE {0})
    /\ index_size \in (IF entry = "Surfaces::parse" THEN Byte
                       ELSE IF entry \in {"Vertices::parse", "Materials::parse"}
                            THEN WidthSamples
                       ELSE {0})
    /\ encoding \in (IF entry \in {"Textures::parse", "Materials::parse"}
                     THEN {"UTF16LE", "UTF8"} ELSE {"UTF8"})
    /\ fill \in {0, 1}
    /\ pc = FirstPc(entry)
    /\ pos = 0
    /\ buf = <<>>
    /\ last_read = "none"
    /\ size = 0
    /\ inner_vec = <<>>
    /\ len = 0
    /\ cur = <<>>
    /\ wd = NoDeform
    /\ outcome = "running"
    /\ err = NoError
    /\ ret = NoValue

(***************************************************************************)
(* Returning, and read_exact.                                              *)
(***************************************************************************)
\* the function returns: its locals are dropped
Return(o, e, r) ==
    /\ outcome' = o
    /\ err' = e
    /\ ret' = r
    /\ pc' = "done"
    /\ size' = 0
    /\ inner_vec' = <<>>
    /\ len' = 0
    /\ cur' = <<>>
    /\ wd' = NoDeform

\* a failure that is not propagated: the decoder goes on where it was
RaiseAndGoOn(e) ==
    /\ outcome' = outcome
    /\ err' = e
    /\ UNCHANGED <<ret, pc, size, inner_vec, len, cur, wd>>

\* Err(e)? : the error is returned at once
Raise(e) == Return("Err", e, NoValue)

\* read_exact gave the bytes b
Took(b) ==
    /\ pos' = pos + Len(b)
    /\ buf' = b
    /\ last_read' = pc

Min(a, b) == IF a <= b THEN a ELSE b

\* read_exact of n bytes met the end of the stream after fewer than n bytes,
\* and after at most `most` bytes
EofWithin(n, most, e) ==
    /\ \E k \in 0..Min(n - 1, most) : pos' = pos + k
    /\ UNCHANGED <<buf, last_read>>
    /\ Raise(e)

Eof(n, e) == EofWithin(n, n, e)

\* a validation failed: nothing is read
Reject(e) ==
    /\ UNCHANGED <<pos, buf, last_read>>
    /\ Raise(e)

\* the error of types.rs as the section's error wraps it
TypeErr(e) == IF entry = "Vertices::parse" THEN <<"TypeError">> \o e ELSE <<"Type">> \o e

Running == outcome = "running"

\* the number of complete records a stream holds at most: a vertex record is
\* the long one, and a stream holds half as many of them
RecordCap == IF entry = "Vertices::parse" THEN MaxRecords \div 2 ELSE MaxRecords

\* the stream holds another record
MoreRecords == Len(inner_vec) < RecordCap

\* the bytes of a section's count
CountBytes == I32Samples(RecordCap)

\* the first read of a record of the section
RecordPc ==
    IF entry = "Vertices::parse" THEN "vertex_pos"
    ELSE IF entry = "Surfaces::parse" THEN "surface"
    ELSE "text_len"

\* the collection a section returns
Collection(v, n) ==
    IF entry = "Vertices::parse" THEN [inner |-> v, size |-> n]
    ELSE [len |-> n, inner |-> v]

(***************************************************************************)
(* Index (types.rs).                                                       *)
(***************************************************************************)
\* a match that also takes the width 3
ValidIndexSizeUpTo4(w) == w \in 1..4

\* IndexSize::try_from: the widths it accepts
ValidIndexSize(w) == w \in {1, 2, 4}

\* Index::parse without the sign extension of the narrow widths
IndexValueZeroExtended(raw, sign) ==
    IF Len(raw) = 1 THEN U8FromLe(raw)
    ELSE IF Len(raw) = 2 THEN U16FromLe(raw)
    ELSE I32FromLe(raw)

\* the value Index::parse computes from the bytes read
IndexValue(raw, sign) ==
    IF Len(raw) = 1 THEN (IF sign THEN I8FromLe(raw) ELSE U8FromLe(raw))
    ELSE IF Len(raw) = 2 THEN (IF sign THEN I16FromLe(raw) ELSE U16FromLe(raw))
    ELSE I32FromLe(raw)

IndexOf(raw, sign) ==
    [size |-> raw, sign |-> sign, value |-> IndexValue(raw, sign)]

is_nil(ix) == ix.value = 0 - 1

(***************************************************************************)
(* The section decoders: the count, then the records.                      *)
(***************************************************************************)
\* a loop that puts the record v in front of the earlier ones
PushRecordFront(v) ==
    LET pushed == <<v>> \o inner_vec
    IN  IF Len(pushed) = size
        THEN Return("Ok", NoError, Collection(pushed, size))
        ELSE /\ inner_vec' = pushed
             /\ pc' = RecordPc
             /\ len' = 0
             /\ cur' = <<>>
             /\ wd' = NoDeform
             /\ UNCHANGED <<size, outcome, err, ret>>

\* the end of one pass of the record loop: the record v is pushed
PushRecord(v) ==
    LET pushed == Append(inner_vec, v)
    IN  IF Len(pushed) = size
        THEN Return("Ok", NoError, Collection(pushed, size))
        ELSE /\ inner_vec' = pushed
             /\ pc' = RecordPc
             /\ len' = 0
             /\ cur' = <<>>
             /\ wd' = NoDeform
             /\ UNCHANGED <<size, outcome, err, ret>>

\* Vertices::parse, Surfaces::parse, Textures::parse, Materials::parse: the count
SectionCount ==
    /\ Running /\ pc = "count"
    /\ UNCHANGED args
    /\ \/ Eof(4, <<"Io">>)
       \/ \E b \in CountBytes :
            /\ Took(b)
            /\ IF is_negative(I32FromLe(b)) THEN Raise(<<"NegativeSize">>)
               ELSE IF I32FromLe(b) = 0
                    THEN Return("Ok", NoError, Collection(<<>>, 0))
               ELSE /\ size' = I32FromLe(b)
                    /\ pc' = RecordPc
                    /\ UNCHANGED <<inner_vec, len, cur, wd, outcome, err, ret>>

\* Surface::parse: IndexSize::try_from, then Index::parse, unsigned
SurfaceParse ==
    /\ Running /\ pc = "surface"
    /\ UNCHANGED args
    /\ IF ~ValidIndexSize(index_size) THEN Reject(TypeErr(<<"IndexSizeMismatch">>))
       ELSE \/ Eof(index_size, TypeErr(<<"Io">>))
            \/ /\ MoreRecords
               /\ \E b \in IndexBytes(index_size) :
                    /\ Took(b)
                    /\ PushRecord([index |-> IndexOf(b, FALSE)])

(***************************************************************************)
(* PmxText::from_bytes (types.rs), for textures and material names.        *)
(***************************************************************************)
\* the decoding of the raw bytes: the set of possible results
DecodeText(raw) ==
    IF encoding = "UTF8"
    THEN LET r == from_utf8(raw)
         IN  {[ok |-> r.ok, err |-> IF r.ok THEN NoError ELSE TypeErr(<<"FromUtf8">>),
               str |-> r.str]}
    ELSE {[ok |-> r.ok,
           err |-> IF r.ok THEN NoError ELSE TypeErr(<<"Util", r.err>>),
           str |-> r.str] : r \in from_utf16le(raw)}

\* the text is read: a texture is complete, a material goes on
TextDone(t) ==
    IF entry = "Textures::parse" THEN PushRecord([path |-> t])
    ELSE /\ cur' = Append(cur, t)
         /\ pc' = IF Len(cur) = 0 THEN "text_len" ELSE "material_diffuse"
         /\ len' = 0
         /\ UNCHANGED <<size, inner_vec, wd, outcome, err, ret>>

\* the 4-byte length
PmxTextLen ==
    /\ Running /\ pc = "text_len"
    /\ UNCHANGED args
    /\ \/ Eof(4, TypeErr(<<"Io">>))
       \/ /\ MoreRecords
          /\ \E b \in I32Samples(MaxTextLen) :
               /\ Took(b)
               /\ IF is_negative(I32FromLe(b)) THEN Raise(TypeErr(<<"NegativeLength">>))
                  ELSE /\ pc' = "text_bytes"
                       /\ len' = I32FromLe(b)
                       /\ UNCHANGED <<size, inner_vec, cur, wd, outcome, err, ret>>

\* the raw bytes, decoded at once
PmxTextBytes ==
    /\ Running /\ pc = "text_bytes"
    /\ UNCHANGED args
    /\ \/ EofWithin(len, MaxTextLen, TypeErr(<<"Io">>))
       \/ /\ len <= MaxTextLen
          /\ \E b \in SeqsOf(TextByte, len) :
               /\ Took(b)
               /\ \E r \in DecodeText(b) :
                    IF ~r.ok THEN Raise(r.err)
                    ELSE TextDone([raw_bytes |-> b, encoding |-> encoding,
                                   decoded |-> r.str])

(***************************************************************************)
(* Material::parse (material.rs).                                          *)
(***************************************************************************)
\* vec_from_bytes!: n floats from 4n bytes
VecFromBytes(b, n) == [i \in 1..n |-> F32FromLe(SubSeq(b, 4 * i - 3, 4 * i))]

MaterialDiffuse ==
    /\ Running /\ pc = "material_diffuse"
    /\ UNCHANGED args
    /\ \/ Eof(16, <<"Io">>)
       \/ /\ Took(OpaqueBytes(16))
          /\ cur' = Append(cur, VecFromBytes(OpaqueBytes(16), 4))
          /\ pc' = "material_specular"
          /\ UNCHANGED <<size, inner_vec, len, wd, outcome, err, ret>>

\* a Material::parse that returns a Material after the specular colour
MaterialSpecularReturns ==
    /\ Running /\ pc = "material_specular"
    /\ UNCHANGED args
    /\ \/ Eof(12, <<"Io">>)
       \/ /\ Took(OpaqueBytes(12))
          /\ PushRecord([name |-> [local |-> cur[1], universal |-> cur[2]],
                         diffuse |-> cur[3],
                         specular |-> VecFromBytes(OpaqueBytes(12), 3)])

\* the specular colour, and then unimplemented!()
MaterialSpecular ==
    /\ Running /\ pc = "material_specular"
    /\ UNCHANGED args
    /\ \/ Eof(12, <<"Io">>)
       \/ /\ Took(OpaqueBytes(12))
          /\ Return("Panic", NoError, NoValue)

(***************************************************************************)
(* Vertex::parse and WeightDeform::parse (vertex.rs).                      *)
(***************************************************************************)
\* the indices of a vertex read as unsigned
VertexIndexUnsigned == FALSE

\* the sign Vertex::parse passes to WeightDeform::parse
VertexIndexSign == TRUE

\* a match whose last arm also takes the tag 5
KnownDeformTypeUpTo5(t) == t \in 0..5

\* the tags WeightDeform::parse has an arm for
KnownDeformType(t) == t \in 0..4

\* four indices for every variant
IndexCountAlways4(t) == 4

\* the number of indices of the variant with tag t
IndexCount(t) == IF t = 0 THEN 1 ELSE IF t \in {1, 3} THEN 2 ELSE 4

\* the bytes read for the stored weights of the variant with tag t
WeightsSize(t) == IF t \in {1, 3} THEN 4 ELSE 16

Vec4Default == [i \in 1..4 |-> [s |-> 0, e |-> 0, m |-> 0]]

VertexPos ==
    /\ Running /\ pc = "vertex_pos"
    /\ UNCHANGED args
    /\ \/ Eof(12, <<"Io">>)
       \/ /\ MoreRecords
          /\ Took(OpaqueBytes(12))
          /\ cur' = [pos |-> VecFromBytes(OpaqueBytes(12), 3)]
          /\ pc' = "vertex_normal"
          /\ UNCHANGED <<size, inner_vec, len, wd, outcome, err, ret>>

VertexNormal ==
    /\ Running /\ pc = "vertex_normal"
    /\ UNCHANGED args
    /\ \/ Eof(12, <<"Io">>)
       \/ /\ Took(OpaqueBytes(12))
          /\ cur' = [pos |-> cur.pos, normal |-> VecFromBytes(OpaqueBytes(12), 3)]
          /\ pc' = "vertex_uv"
          /\ UNCHANGED <<size, inner_vec, len, wd, outcome, err, ret>>

\* the uv, and the allocation of the extra vectors
VertexUv ==
    /\ Running /\ pc = "vertex_uv"
    /\ UNCHANGED args
    /\ \/ Eof(8, <<"Io">>)
       \/ /\ Took(OpaqueBytes(8))
          /\ cur' = [pos |-> cur.pos, normal |-> cur.normal,
                     uv |-> VecFromBytes(OpaqueBytes(8), 2),
                     vec4s |-> IF extra_vec4_count # 0
                               THEN [i \in 1..extra_vec4_count |-> Vec4Default]
                               ELSE <<>>]
          /\ len' = 0
          /\ pc' = IF extra_vec4_count # 0 THEN "vertex_vec4" ELSE "vertex_deform_type"
          /\ UNCHANGED <<size, inner_vec, wd, outcome, err, ret>>

\* one pass of the loop over the extra vectors; len counts the vectors read
VertexVec4 ==
    /\ Running /\ pc = "vertex_vec4"
    /\ UNCHANGED args
    /\ \/ Eof(16, <<"Io">>)
       \/ /\ Took(OpaqueBytes(16))
          /\ cur' = [cur EXCEPT !.vec4s[len + 1] = VecFromBytes(OpaqueBytes(16), 4)]
          /\ len' = len + 1
          /\ pc' = IF len + 1 = extra_vec4_count THEN "vertex_deform_type"
                   ELSE "vertex_vec4"
          /\ UNCHANGED <<size, inner_vec, wd, outcome, err, ret>>

\* a Vertex::parse that examines the tag before the width
VertexDeformTypeTagFirst ==
    /\ Running /\ pc = "vertex_deform_type"
    /\ UNCHANGED args
    /\ \/ Eof(1, <<"Io">>)
       \/ \E b \in Byte :
            /\ Took(<<b>>)
            /\ IF ~KnownDeformType(b) THEN Raise(<<"InvalidWeightDeformType">>)
               ELSE IF ~ValidIndexSize(index_size)
               THEN Raise(TypeErr(<<"IndexSizeMismatch">>))
               ELSE /\ wd' = [NoDeform EXCEPT !.typ = b, !.start = pos + 1]
                    /\ pc' = "weight_deform"
                    /\ UNCHANGED <<size, inner_vec, len, cur, outcome, err, ret>>

\* the tag byte, and then IndexSize::try_from(index_size)
VertexDeformType ==
    /\ Running /\ pc = "vertex_deform_type"
    /\ UNCHANGED args
    /\ \/ Eof(1, <<"Io">>)
       \/ \E b \in Byte :
            /\ Took(<<b>>)
            /\ IF ~ValidIndexSize(index_size)
               THEN Raise(TypeErr(<<"IndexSizeMismatch">>))
               ELSE /\ wd' = [NoDeform EXCEPT !.typ = b, !.start = pos + 1]
                    /\ pc' = "weight_deform"
                    /\ UNCHANGED <<size, inner_vec, len, cur, outcome, err, ret>>

\* WeightDeform::parse: the match on the tag
WeightDeformParse ==
    /\ Running /\ pc = "weight_deform"
    /\ UNCHANGED args
    /\ IF ~KnownDeformType(wd.typ) THEN Reject(<<"InvalidWeightDeformType">>)
       ELSE /\ pc' = "wd_index"
            /\ UNCHANGED <<pos, buf, last_read, size, inner_vec, len, cur, wd, outcome,
                         err, ret>>

\* the bytes tried for the next index of the payload
NextIndexBytes ==
    IF Len(wd.indices) = 0 THEN IndexBytes(index_size)
    ELSE IF Len(wd.indices) = 1 THEN IndexBytesRest(index_size)
    ELSE {wd.indices[2].size}

\* one Index::parse of the payload
WdIndex ==
    /\ Running /\ pc = "wd_index"
    /\ UNCHANGED args
    /\ \/ Eof(index_size, TypeErr(<<"Io">>))
       \/ \E b \in NextIndexBytes :
            /\ Took(b)
            /\ wd' = [wd EXCEPT !.indices = Append(@, IndexOf(b, VertexIndexSign))]
            /\ pc' = IF Len(wd.indices) + 1 < IndexCount(wd.typ) THEN "wd_index"
                     ELSE IF wd.typ = 0 THEN "vertex_edge_scale"
                     ELSE "wd_weights"
            /\ UNCHANGED <<size, inner_vec, len, cur, outcome, err, ret>>

\* the second weight computed as w - 1.0
DerivedWeightsReversed(b) ==
    {<<F32FromLe(b), w2>> : w2 \in F32Sub(F32FromLe(b), F32One)}

\* the weights of Bdef2 and Sdef from the bytes b of the stored one
DerivedWeights(b) == {<<F32FromLe(b), w2>> : w2 \in F32Sub(F32One, F32FromLe(b))}

\* the stored weights: one float for Bdef2 and Sdef, four for Bdef4 and Qdef
WdWeights ==
    /\ Running /\ pc = "wd_weights"
    /\ UNCHANGED args
    /\ \/ Eof(WeightsSize(wd.typ), <<"Io">>)
       \/ \E b \in (IF wd.typ \in {1, 3} THEN WeightBytes ELSE {OpaqueBytes(16)}) :
            /\ Took(b)
            /\ \E w \in (IF wd.typ \in {1, 3} THEN DerivedWeights(b)
                         ELSE {VecFromBytes(b, 4)}) :
                 wd' = [wd EXCEPT !.weights = w]
            /\ pc' = IF wd.typ = 3 THEN "wd_sdef_vec" ELSE "vertex_edge_scale"
            /\ UNCHANGED <<size, inner_vec, len, cur, outcome, err, ret>>

\* the 12 bytes of the k-th vector of Sdef: the three vectors differ
SdefVecBytes(k) == [i \in 1..12 |-> (OpaqueBytes(12)[i] + k) % 256]

\* one of the three vectors of Sdef: c, r0, r1 in this order
WdSdefVec ==
    /\ Running /\ pc = "wd_sdef_vec"
    /\ UNCHANGED args
    /\ \/ Eof(12, <<"Io">>)
       \/ /\ Took(SdefVecBytes(Len(wd.vecs) + 1))
          /\ wd' = [wd EXCEPT !.vecs = Append(@, VecFromBytes(SdefVecBytes(Len(wd.vecs) + 1), 3))]
          /\ pc' = IF Len(wd.vecs) + 1 = 3 THEN "vertex_edge_scale" ELSE "wd_sdef_vec"
          /\ UNCHANGED <<size, inner_vec, len, cur, outcome, err, ret>>

\* the WeightDeform value built from the payload d
WeightDeformOf(d) ==
    IF d.typ = 0 THEN [kind |-> "BDEF1", index |-> d.indices[1]]
    ELSE IF d.typ = 1
         THEN [kind |-> "BDEF2", indices |-> d.indices, weights |-> d.weights]
    ELSE IF d.typ = 2
         THEN [kind |-> "BDEF4", indices |-> d.indices, weights |-> d.weights]
    ELSE IF d.typ = 3
         THEN [kind |-> "SDEF", indices |-> d.indices, weights |-> d.weights,
               c |-> d.vecs[1], r0 |-> d.vecs[2], r1 |-> d.vecs[3]]
    ELSE [kind |-> "QDEF", indices |-> d.indices, weights |-> d.weights]

\* the edge scale: the vertex is complete
VertexEdgeScale ==
    /\ Running /\ pc = "vertex_edge_scale"
    /\ UNCHANGED args
    /\ \/ Eof(4, <<"Io">>)
       \/ /\ Took(OpaqueBytes(4))
          /\ PushRecord([pos |-> cur.pos, normal |-> cur.normal, uv |-> cur.uv,
                         extra_vec4 |-> cur.vec4s,
                         weight_deform |-> WeightDeformOf(wd),
                         edge_scale |-> F32FromLe(OpaqueBytes(4))])

(***************************************************************************)
(* Pmx::open, Header::parse, Globals::parse, PmdText::from_bytes (pmx.rs). *)
(***************************************************************************)
\* File::open(path)?
OpenFile ==
    /\ Running /\ pc = "open_file"
    /\ UNCHANGED args
    /\ \/ Reject(<<"IO">>)
       \/ /\ pc' = "tag"
          /\ UNCHANGED <<pos, buf, last_read, size, inner_vec, len, cur, wd, outcome,
                         err, ret>>

\* a comparison of all four bytes of the tag with "PMX "
TagIsPmxSpace(tag) == tag = <<80, 77, 88, 32>>

\* &tag[..3] == b"PMX"
TagIsPmx(tag) == SubSeq(tag, 1, 3) = <<80, 77, 88>>

HeaderTag ==
    /\ Running /\ pc = "tag"
    /\ UNCHANGED args
    /\ \/ Eof(4, <<"IO">>)
       \/ \E b \in TagBytes :
            /\ Took(b)
            /\ IF ~TagIsPmx(b) THEN Raise(<<"InvalidTag">>)
               ELSE /\ pc' = "version"
                    /\ UNCHANGED <<size, inner_vec, len, cur, wd, outcome, err, ret>>

HeaderVersion ==
    /\ Running /\ pc = "version"
    /\ UNCHANGED args
    /\ \/ Eof(4, <<"IO">>)
       \/ \E b \in VersionBytes :
            /\ Took(b)
            /\ cur' = [version |-> F32FromLe(b)]
            /\ pc' = "global_count"
            /\ UNCHANGED <<size, inner_vec, len, wd, outcome, err, ret>>

\* Globals::parse: the count byte, a u8
GlobalsCount ==
    /\ Running /\ pc = "global_count"
    /\ UNCHANGED args
    /\ \/ Eof(1, <<"IO">>)
       \/ \E b \in Byte :
            /\ Took(<<b>>)
            /\ IF b < 8 THEN Raise(<<"InvalidEncoding">>)
               ELSE /\ len' = b
                    /\ pc' = "globals"
                    /\ UNCHANGED <<size, inner_vec, cur, wd, outcome, err, ret>>

\* the bytes of n globals
GlobalsBytes(n) ==
    {<<e, v>> \o w \o OpaqueBytes(n - 8) : e \in {0, 1, 2}, v \in {0, 255},
                                           w \in WidthBytes}

\* Encoding::try_from
EncodingOf(b) == IF b = 0 THEN "UTF16LE" ELSE "UTF8"

GlobalsOf(g) ==
    [encoding |-> EncodingOf(g[1]), vec4_additional |-> g[2], vert_idx_size |-> g[3],
     tex_idx_size |-> g[4], material_idx_size |-> g[5], bone_idx_size |-> g[6],
     morph_idx_size |-> g[7], rb_idx_size |-> g[8],
     additional |-> IF Len(g) > 8 THEN <<"Some", SubSeq(g, 9, Len(g))>>
                    ELSE <<"None">>]

\* Globals::parse: the globals, and the encoding byte checked last
GlobalsRead ==
    /\ Running /\ pc = "globals"
    /\ UNCHANGED args
    /\ \/ EofWithin(len, 8 + MaxExtraGlobals, <<"IO">>)
       \/ /\ len <= 8 + MaxExtraGlobals
          /\ \E g \in GlobalsBytes(len) :
               /\ Took(g)
               /\ IF g[1] \notin {0, 1} THEN Raise(<<"InvalidEncoding">>)
                  ELSE /\ cur' = [version |-> cur.version, globals |-> GlobalsOf(g),
                                  texts |-> <<>>]
                       /\ len' = 0
                       /\ pc' = "pmd_len"
                       /\ UNCHANGED <<size, inner_vec, wd, outcome, err, ret>>

\* PmdText::from_bytes: the 4-byte length
PmdTextLen ==
    /\ Running /\ pc = "pmd_len"
    /\ UNCHANGED args
    /\ \/ Eof(4, <<"IO">>)
       \/ \E b \in I32Samples(MaxTextLen) :
            /\ Took(b)
            /\ IF is_negative(I32FromLe(b)) THEN Raise(<<"InvalidEncoding">>)
               ELSE /\ len' = I32FromLe(b)
                    /\ pc' = "pmd_bytes"
                    /\ UNCHANGED <<size, inner_vec, cur, wd, outcome, err, ret>>

\* the header Header::parse builds from the four texts t
HeaderOf(c, t) ==
    [version |-> c.version, globals |-> c.globals,
     name |-> [local |-> t[1], universal |-> t[2]],
     comment |-> [local |-> t[3], universal |-> t[4]]]

\* PmdText::from_bytes: the raw bytes, kept undecoded; after the fourth text
\* Header::parse returns and Pmx::open returns the Pmx
PmdTextBytes ==
    /\ Running /\ pc = "pmd_bytes"
    /\ UNCHANGED args
    /\ \/ EofWithin(len, MaxTextLen, <<"IO">>)
       \/ /\ len <= MaxTextLen
          /\ Took(OpaqueBytes(len))
          /\ LET t == Append(cur.texts, [len |-> len, raw_bytes |-> OpaqueBytes(len)])
             IN  IF Len(t) = 4
                 THEN Return("Ok", NoError, [header |-> HeaderOf(cur, t)])
                 ELSE /\ cur' = [cur EXCEPT !.texts = t]
                      /\ len' = 0
                      /\ pc' = "pmd_len"
                      /\ UNCHANGED <<size, inner_vec, wd, outcome, err, ret>>

(***************************************************************************)
(* The specification.                                                      *)
(***************************************************************************)
Next ==
    \/ SectionCount
    \/ SurfaceParse
    \/ PmxTextLen
    \/ PmxTextBytes
    \/ MaterialDiffuse
    \/ MaterialSpecular
    \/ VertexPos
    \/ VertexNormal
    \/ VertexUv
    \/ VertexVec4
    \/ VertexDeformType
    \/ WeightDeformParse
    \/ WdIndex
    \/ WdWeights
    \/ WdSdefVec
    \/ VertexEdgeScale
    \/ OpenFile
    \/ HeaderTag
    \/ HeaderVersion
    \/ GlobalsCount
    \/ GlobalsRead
    \/ PmdTextLen
    \/ PmdTextBytes

Spec == Init /\ [][Next]_vars

(***************************************************************************)
(* What the claims speak of.                                               *)
(***************************************************************************)
Sections == Entries \ {"Pmx::open"}

\* the records decoded so far, and the records returned
DecodedRecords ==
    {inner_vec[i] : i \in DOMAIN inner_vec}
    \cup (IF outcome = "Ok" /\ entry \in Sections
          THEN {ret.inner[i] : i \in DOMAIN ret.inner} ELSE {})

DeformIndices(d) ==
    IF d.kind = "BDEF1" THEN {d.index} ELSE {d.indices[i] : i \in DOMAIN d.indices}

\* every Index of a surface record decoded so far
SurfaceIndices ==
    IF entry = "Surfaces::parse" THEN {r.index : r \in DecodedRecords} ELSE {}

\* every Index of a weight-deform payload decoded so far
VertexIndices ==
    IF entry = "Vertices::parse"
    THEN {wd.indices[i] : i \in DOMAIN wd.indices}
         \cup UNION {DeformIndices(r.weight_deform) : r \in DecodedRecords}
    ELSE {}

\* byte k (from 0) of the two's complement of v
Digit(v, k) == (v \div (256 ^ k)) % 256

\* v is the number whose little-endian bytes, read as signed or unsigned, are raw
Represents(v, raw, signed) ==
    /\ \A k \in 1..Len(raw) : Digit(v, k - 1) = raw[k]
    /\ IF Len(raw) = 4 THEN (signed \/ v >= 0)
       ELSE IF signed
            THEN v >= 0 - ((256 ^ Len(raw)) \div 2) /\ v < (256 ^ Len(raw)) \div 2
       ELSE v >= 0 /\ v < 256 ^ Len(raw)

(***************************************************************************)
(* C1.  A successful Pmx::open has run Header, Vertices, Surfaces and      *)
(* Textures in this order over the one cursor, so the value it returns     *)
(* holds the three collections next to the header.                         *)
(* Pmx::open stops after Header::parse: TLC refutes this.                  *)
(***************************************************************************)
C1_OpenDecodesSections ==
    (entry = "Pmx::open" /\ outcome = "Ok")
        => {"header", "vertices", "surfaces", "textures"} \subseteq DOMAIN ret

(***************************************************************************)
(* C2.  The first failure of a read or of a validation ends the decode:    *)
(* the step that fails returns Err with no value and no collection, and    *)
(* after it nothing is read, no record is decoded and nothing is returned. *)
(***************************************************************************)
C2_FirstErrorReturned ==
    [][ /\ (err = NoError /\ err' # NoError)
            => /\ outcome' = "Err"
               /\ pc' = "done"
               /\ ret' = NoValue
               /\ inner_vec' = <<>>
        /\ (err # NoError) => UNCHANGED <<pos, buf, last_read, inner_vec, ret, err>>
      ]_vars

\* a texture section fails at the length of its second record
C2_Witness ==
    /\ entry = "Textures::parse"
    /\ outcome = "Err"
    /\ err = <<"Type", "NegativeLength">>
    /\ pos = 13
    /\ ret = NoValue

(***************************************************************************)
(* C3.  Index::parse reads exactly `width` bytes and yields the number     *)
(* they hold, little-endian: sign-extended when signed, zero-extended when *)
(* unsigned.                                                               *)
(* As the claim states it, for every width and signedness: refuted by an   *)
(* unsigned 4-byte index of 2^31 or more.                                  *)
(***************************************************************************)
C3_Original ==
    \A ix \in SurfaceIndices \cup VertexIndices :
        Represents(ix.value, ix.size, ix.sign)

\* The amended claim: widths 1 and 2 as stated; the 4 bytes of width 4 are
\* read as an i32 whatever the signedness.  Each index takes exactly
\* index_size bytes of the cursor.
C3_IndexRoundTrip ==
    /\ \A ix \in SurfaceIndices \cup VertexIndices :
         /\ Len(ix.size) = index_size
         /\ Represents(ix.value, ix.size, ix.sign \/ Len(ix.size) = 4)
    /\ (entry = "Surfaces::parse" /\ pc = "surface")
         => pos = 4 + index_size * Len(inner_vec)
    /\ (entry = "Surfaces::parse" /\ outcome = "Ok")
         => pos = 4 + index_size * Len(ret.inner)
    /\ pc \in {"wd_index", "wd_weights"}
         => pos = wd.start + index_size * Len(wd.indices)

\* a returned surface section holds the unsigned 2-byte indices 0x8000 and 0xFFFF
C3_Witness ==
    /\ entry = "Surfaces::parse" /\ outcome = "Ok"
    /\ \E ix \in SurfaceIndices : ix.size = <<0, 128>> /\ ix.value = 32768
    /\ \E ix \in SurfaceIndices :
         ix.size = <<255, 255, 255, 255>> \/ ix.size = <<255, 255>>

C5_Kind(t) ==
    CASE t = 0 -> "BDEF1" [] t = 1 -> "BDEF2" [] t = 2 -> "BDEF4"
      [] t = 3 -> "SDEF" [] t = 4 -> "QDEF"

\* the vertex that the step pushes or returns
C5_Pushed(v, r) == IF Len(v) > 0 THEN v[Len(v)] ELSE r.inner[Len(r.inner)]

C5_DeformTag ==
    [][ /\ (pc = "weight_deform" /\ wd.typ \notin 0..4)
            => /\ outcome' = "Err"
               /\ err' = <<"InvalidWeightDeformType">>
               /\ pos' = pos /\ pos = wd.start
               /\ ret' = NoValue
        /\ (pc = "weight_deform" /\ wd.typ \in 0..4)
            => /\ outcome' = "running"
               /\ pc' = "wd_index"
               /\ pos' = pos
        /\ (pc = "vertex_edge_scale" /\ outcome' # "Err")
            => C5_Pushed(inner_vec', ret').weight_deform.kind = C5_Kind(wd.typ)
      ]_vars

\* the tag 255 was rejected
C5_Witness ==
    /\ err = <<"InvalidWeightDeformType">>
    /\ buf = <<255>>
    /\ last_read = "vertex_deform_type"

(***************************************************************************)
(* C6.  A Bdef2 or Sdef record takes exactly one 4-byte weight w from the  *)
(* stream, and its second weight is exactly the f32 1.0 - w.               *)
(***************************************************************************)
\* the bytes of w and of the f32 1.0 - w, computed with IEEE arithmetic
C6_Table ==
    {<<<<0, 0, 0, 0>>, <<0, 0, 128, 63>>>>,
     <<<<0, 0, 128, 63>>, <<0, 0, 0, 0>>>>,
     <<<<0, 0, 0, 63>>, <<0, 0, 0, 63>>>>,
     <<<<0, 0, 128, 62>>, <<0, 0, 64, 63>>>>,
     <<<<205, 204, 204, 61>>, <<102, 102, 102, 63>>>>,
     <<<<0, 0, 0, 51>>, <<0, 0, 128, 63>>>>,
     <<<<255, 255, 127, 127>>, <<255, 255, 127, 255>>>>,
     <<<<0, 0, 128, 191>>, <<0, 0, 0, 64>>>>,
     <<<<0, 0, 128, 127>>, <<0, 0, 128, 255>>>>,
     <<<<1, 0, 128, 127>>, <<1, 0, 192, 127>>>>}

C6_Derived(w) ==
    /\ Len(w) = 2
    /\ \E p \in C6_Table :
         /\ w[1] = F32FromLe(p[1])
         /\ IF F32IsNaN(F32FromLe(p[2])) THEN F32IsNaN(w[2])
            ELSE w[2] = F32FromLe(p[2])

C6_SecondWeightDerived ==
    /\ \A r \in (IF entry = "Vertices::parse" THEN DecodedRecords ELSE {}) :
         r.weight_deform.kind \in {"BDEF2", "SDEF"}
            => C6_Derived(r.weight_deform.weights)
    /\ (wd.typ \in {1, 3} /\ pc \in {"wd_sdef_vec", "vertex_edge_scale"})
         => /\ C6_Derived(wd.weights)
            /\ pos = wd.start + 2 * index_size + 4 + 12 * Len(wd.vecs)
    /\ (wd.typ \in {1, 3} /\ last_read = "wd_weights")
         => Len(buf) = 4 /\ wd.weights[1] = F32FromLe(buf)

\* a returned vertex is Sdef with the weights 0.1 and 0.9
C6_Witness ==
    /\ entry = "Vertices::parse" /\ outcome = "Ok"
    /\ \E r \in DecodedRecords :
         /\ r.weight_deform.kind = "SDEF"
         /\ r.weight_deform.weights
              = <<F32FromLe(<<205, 204, 204, 61>>), F32FromLe(<<102, 102, 102, 63>>)>>

(***************************************************************************)
(* C7.  In every section decoder a count that is negative as an i32 fails  *)
(* with NegativeSize: it is no panic and no empty collection, and nothing  *)
(* is read after the 4 bytes of the count.                                 *)
(***************************************************************************)
C7_NegativeCount ==
    /\ (entry \in Sections /\ last_read = "count" /\ buf[4] >= 128)
         => /\ outcome = "Err"
            /\ err = <<"NegativeSize">>
            /\ pos = 4
            /\ ret = NoValue
    /\ err = <<"NegativeSize">>
         => entry \in Sections /\ last_read = "count" /\ buf[4] >= 128 /\ pos = 4

\* the material section was given the count 0xFFFFFFFF
C7_Witness ==
    /\ entry = "Materials::parse"
    /\ buf = <<255, 255, 255, 255>>
    /\ err = <<"NegativeSize">>

(***************************************************************************)
(* C8.  A declared count of globals below 8, the count byte read as a      *)
(* signed byte, fails with InvalidGlobalCount.                             *)
(* Globals::parse compares the byte as a u8 and fails with InvalidEncoding:*)
(* TLC refutes this.                                                       *)
(***************************************************************************)
C8_GlobalCountError ==
    (entry = "Pmx::open" /\ last_read = "global_count" /\ I8FromLe(buf) < 8)
        => outcome = "Err" /\ err = <<"InvalidGlobalCount">>

(***************************************************************************)
(* C9.  Every length-prefixed text read, of a section and of the header,   *)
(* fails with NegativeLength on a negative length and reads nothing after  *)
(* it; a length of 0 gives the empty text and a length n reads n bytes.    *)
(* PmdText::from_bytes fails with InvalidEncoding: TLC refutes this.       *)
(***************************************************************************)
C9_NegativeLength ==
    /\ (last_read \in {"text_len", "pmd_len"} /\ buf[4] >= 128)
         => /\ outcome = "Err"
            /\ err[Len(err)] = "NegativeLength"
            /\ ret = NoValue
    /\ (last_read \in {"text_len", "pmd_len"} /\ buf[4] < 128 /\ pc \in {"text_bytes", "pmd_bytes"})
         => len = I32FromLe(buf)
    /\ (last_read \in {"text_bytes", "pmd_bytes"}) => Len(buf) <= MaxTextLen

(***************************************************************************)
(* C10.  An index width other than 1, 2 or 4 is rejected with              *)
(* IndexSizeMismatch before any byte of the index is read.                 *)
(***************************************************************************)
C10_WidthRejected ==
    [][ /\ (pc = "surface" /\ index_size \notin {1, 2, 4})
            => /\ outcome' = "Err"
               /\ err' = <<"Type", "IndexSizeMismatch">>
               /\ pos' = pos /\ buf' = buf
        /\ (pc = "vertex_deform_type" /\ index_size \notin {1, 2, 4} /\ pos' = pos + 1)
            => /\ outcome' = "Err"
               /\ err' = <<"TypeError", "IndexSizeMismatch">>
        /\ (index_size \notin {1, 2, 4} /\ entry \in {"Surfaces::parse", "Vertices::parse"})
            => /\ pc' \notin {"weight_deform", "wd_index"}
               /\ last_read' \notin {"surface", "wd_index"}
      ]_vars

\* a surface section of width 3 was rejected after its count
C10_Witness ==
    /\ entry = "Surfaces::parse"
    /\ index_size = 3
    /\ err = <<"Type", "IndexSizeMismatch">>
    /\ pos = 4

(***************************************************************************)
(* C11.  Header::parse reads the 4 bytes of the tag first and fails with   *)
(* InvalidTag exactly when the first 3 of them are not the ASCII letters   *)
(* P, M, X; the 4th byte is accepted whatever it is, and after InvalidTag  *)
(* nothing is read past the 4 bytes of the tag.                            *)
(***************************************************************************)
C11_TagChecked ==
    /\ (entry = "Pmx::open" /\ last_read = "none")
         => pos < 4 /\ pc \in {"open_file", "tag", "done"}
    /\ (entry = "Pmx::open" /\ last_read = "tag")
         => /\ Len(buf) = 4 /\ pos \in 4..7
            /\ (err = <<"InvalidTag">>)
                 <=> ~(buf[1] = 80 /\ buf[2] = 77 /\ buf[3] = 88)
            /\ (buf[1] = 80 /\ buf[2] = 77 /\ buf[3] = 88)
                 => \/ outcome = "running" /\ pc = "version"
                    \/ outcome = "Err" /\ err = <<"IO">>
    /\ err = <<"InvalidTag">>
         => /\ entry = "Pmx::open" /\ outcome = "Err" /\ ret = NoValue
            /\ last_read = "tag" /\ pos = 4

\* the tag "PMD " was rejected
C11_Witness ==
    /\ entry = "Pmx::open"
    /\ buf = <<80, 77, 68, 32>>
    /\ err = <<"InvalidTag">>
    /\ pos = 4

(***************************************************************************)
(* C12.  A section decoder that succeeds on the count n has decoded        *)
(* exactly n records, one after the other from the cursor with no byte     *)
(* skipped between them, and stored them in the order of the stream; the   *)
(* stored length equals the number of stored records, so len() is n.       *)
(***************************************************************************)
\* the length field of a collection: size in Vertices, len in the others
C12_Stored(c) == IF entry = "Vertices::parse" THEN c.size ELSE c.len

\* the bytes of the stream a weight-deform payload takes
C12_PayloadBytes(d) ==
    IF d.kind = "BDEF1" THEN Len(d.index.size)
    ELSE IF d.kind = "BDEF2" THEN 2 * index_size + 4
    ELSE IF d.kind = "SDEF" THEN 2 * index_size + 4 + 36
    ELSE 4 * index_size + 16

\* the bytes of the stream a record takes
C12_RecordBytes(r) ==
    IF entry = "Surfaces::parse" THEN Len(r.index.size)
    ELSE IF entry = "Textures::parse" THEN 4 + Len(r.path.raw_bytes)
    ELSE 12 + 12 + 8 + 16 * Len(r.extra_vec4) + 1
         + C12_PayloadBytes(r.weight_deform) + 4

RECURSIVE C12_Bytes(_)
C12_Bytes(v) ==
    IF v = <<>> THEN 0 ELSE C12_RecordBytes(Head(v)) + C12_Bytes(Tail(v))

\* the record v ends with the bytes b read last
C12_EndsWith(r, b) ==
    IF entry = "Surfaces::parse" THEN r.index.size = b
    ELSE IF entry = "Textures::parse" THEN r.path.raw_bytes = b
    ELSE r.edge_scale = F32FromLe(b)

\* one step of a section decoder
C12_Step ==
    /\ (pc = "count" /\ outcome' = "running" /\ pc' # "count")
         => /\ size' = I32FromLe(buf') /\ size' >= 1
            /\ inner_vec' = <<>> /\ pos' = 4
    /\ (pc # "count" /\ outcome' = "running") => size' = size
    /\ Len(inner_vec') > Len(inner_vec)
         => /\ inner_vec' = Append(inner_vec, inner_vec'[Len(inner_vec')])
            /\ C12_EndsWith(inner_vec'[Len(inner_vec')], buf')
            /\ Len(inner_vec') < size
            /\ pos' = 4 + C12_Bytes(inner_vec')
    /\ (outcome = "running" /\ outcome' = "Ok")
         => /\ Len(ret'.inner) = C12_Stored(ret')
            /\ pos' = 4 + C12_Bytes(ret'.inner)
            /\ IF pc = "count"
               THEN buf' = <<0, 0, 0, 0>> /\ ret'.inner = <<>>
               ELSE /\ Len(ret'.inner) = size
                    /\ ret'.inner
                         = Append(inner_vec, ret'.inner[Len(ret'.inner)])
                    /\ C12_EndsWith(ret'.inner[Len(ret'.inner)], buf')

\* C12: every step of a section decoder keeps the count, appends in the order
\* of the stream, and leaves the cursor right after the records stored
C12_ExactlyNRecords == [][(entry \in Sections) => C12_Step]_vars

\* a texture section of two UTF-8 paths, "A" and then "AA", was returned
C12_Witness ==
    /\ entry = "Textures::parse" /\ encoding = "UTF8" /\ outcome = "Ok"
    /\ ret.len = 2 /\ Len(ret.inner) = 2
    /\ ret.inner[1].path.decoded = <<65>>
    /\ ret.inner[2].path.decoded = <<65, 65>>
    /\ pos = 4 + (4 + 1) + (4 + 2)

(***************************************************************************)
(* C13.  A WeightDeform decode that succeeds with the index width w takes  *)
(* w bytes for the tag 0, 2w+4 for the tag 1, 4w+16 for the tags 2 and 4,  *)
(* and 2w+4+36 for the tag 3, whose three vectors are c, r0, r1 in the     *)
(* order read; the indices are read before the weights.                    *)
(***************************************************************************)
\* the bytes of the payload of the variant with tag t
C13_Payload(t) ==
    CASE t = 0 -> index_size
      [] t = 1 -> 2 * index_size + 4
      [] t = 2 -> 4 * index_size + 16
      [] t = 3 -> 2 * index_size + 4 + 36
      [] t = 4 -> 4 * index_size + 16

\* three floats from 12 bytes
C13_Vec3(b) ==
    <<F32FromLe(SubSeq(b, 1, 4)), F32FromLe(SubSeq(b, 5, 8)),
      F32FromLe(SubSeq(b, 9, 12))>>

C13_Step ==
    /\ pc \in {"wd_index", "wd_weights", "wd_sdef_vec"}
         => wd.start = 4 + C12_Bytes(inner_vec) + 32 + 16 * extra_vec4_count + 1
    /\ pc = "wd_index"
         => /\ wd.weights = <<>> /\ wd.vecs = <<>>
            /\ pos = wd.start + index_size * Len(wd.indices)
    /\ pc = "wd_weights"
         => /\ wd.typ \in 1..4 /\ wd.weights = <<>> /\ wd.vecs = <<>>
            /\ Len(wd.indices) = (IF wd.typ \in {1, 3} THEN 2 ELSE 4)
            /\ pos = wd.start + index_size * Len(wd.indices)
    /\ pc = "wd_sdef_vec"
         => /\ wd.typ = 3 /\ Len(wd.indices) = 2 /\ Len(wd.weights) = 2
            /\ pos = wd.start + 2 * index_size + 4 + 12 * Len(wd.vecs)
            /\ pos' = pos + 12 => wd'.vecs = Append(wd.vecs, C13_Vec3(buf'))
    /\ pc = "vertex_edge_scale"
         => /\ pos = wd.start + C13_Payload(wd.typ)
            /\ wd.typ \in {2, 4}
                 => /\ Len(wd.indices) = 4 /\ Len(wd.weights) = 4
                    /\ last_read = "wd_weights" /\ Len(buf) = 16
                    /\ \A i \in 1..4 :
                         wd.weights[i] = F32FromLe(SubSeq(buf, 4 * i - 3, 4 * i))
            /\ (wd.typ = 3 /\ outcome' # "Err")
                 => LET d == C5_Pushed(inner_vec', ret').weight_deform
                    IN  /\ d.c = wd.vecs[1] /\ d.r0 = wd.vecs[2] /\ d.r1 = wd.vecs[3]
                        /\ d.indices = wd.indices /\ d.weights = wd.weights

\* C13: every step of a vertex decode keeps the payload at these positions
C13_PayloadLayout == [][(entry = "Vertices::parse") => C13_Step]_vars

\* an Sdef payload of width 2 is complete, its three vectors differ
C13_Witness ==
    /\ entry = "Vertices::parse" /\ pc = "vertex_edge_scale"
    /\ wd.typ = 3 /\ index_size = 2
    /\ pos = wd.start + 44
    /\ wd.vecs[1] # wd.vecs[2] /\ wd.vecs[2] # wd.vecs[3]

(***************************************************************************)
(* C14.  Materials::parse returns Ok only for the count 0, with an empty   *)
(* collection.  For a count of 1 or more it never holds a Material: it     *)
(* returns the error of a read of the first record, or, when the name      *)
(* pair, the 16 bytes of diffuse and the 12 bytes of specular are read, it *)
(* panics at unimplemented!().                                             *)
(***************************************************************************)
C14_Step ==
    /\ inner_vec = <<>> /\ inner_vec' = <<>>
    /\ outcome' = "Ok"
         => /\ ret' = [len |-> 0, inner |-> <<>>]
            /\ last_read' = "count" /\ buf' = <<0, 0, 0, 0>> /\ pos' = 4
    /\ outcome' = "Err"
         => /\ ret' = NoValue
            /\ Head(err') \in {"Io", "NegativeSize", "Type"}
            /\ last_read' \in {"none", "count", "text_len", "text_bytes",
                               "material_diffuse"}
    /\ outcome' = "Panic"
         => /\ ret' = NoValue /\ err' = NoError
            /\ last_read' = "material_specular" /\ Len(buf') = 12
    /\ (outcome = "running" /\ outcome' = "Panic")
         => /\ pc = "material_specular" /\ size >= 1
            /\ Len(cur) = 3 /\ Len(cur[3]) = 4
            /\ pos' = 4 + (4 + Len(cur[1].raw_bytes)) + (4 + Len(cur[2].raw_bytes))
                        + 16 + 12
    /\ (pc = "material_specular" /\ pos' = pos + 12) => outcome' = "Panic"
    /\ (pc = "material_diffuse" /\ pos' = pos + 16)
         => outcome' = "running" /\ pc' = "material_specular"

\* C14: every step of Materials::parse, and a panic happens nowhere else
C14_MaterialsUnimplemented ==
    [][/\ (entry = "Materials::parse") => C14_Step
       /\ (outcome' = "Panic") => entry = "Materials::parse"]_vars

\* the first material had names of 1 and 2 bytes, and the decoder panicked
C14_Witness ==
    /\ entry = "Materials::parse"
    /\ outcome = "Panic"
    /\ pos = 4 + (4 + 1) + (4 + 2) + 16 + 12

(***************************************************************************)
(* C15.  The index width is checked only while a record is decoded, never  *)
(* at the start of a section: a Vertices or Surfaces section of count 0    *)
(* succeeds for every width.  Vertex::parse checks the width after the     *)
(* position, the normal, the uv, the extra vectors and the tag byte are    *)
(* read and before the tag is examined, so a record with an invalid width  *)
(* and an invalid tag fails with IndexSizeMismatch.                        *)
(***************************************************************************)
C15_WidthError == {<<"TypeError", "IndexSizeMismatch">>, <<"Type", "IndexSizeMismatch">>}

C15_Step ==
    /\ (pc = "count" /\ pos' = 4 /\ buf' = <<0, 0, 0, 0>>)
         => outcome' = "Ok" /\ err' = NoError /\ ret'.inner = <<>>
    /\ pc = "count" => err' \notin C15_WidthError
    /\ (entry = "Vertices::parse" /\ err = NoError /\ err' \in C15_WidthError)
         => /\ err' = <<"TypeError", "IndexSizeMismatch">>
            /\ pc = "vertex_deform_type" /\ last_read' = "vertex_deform_type"
            /\ Len(buf') = 1 /\ size >= 1
            /\ pos' = 4 + C12_Bytes(inner_vec) + 12 + 12 + 8
                        + 16 * extra_vec4_count + 1
    /\ (entry = "Vertices::parse" /\ pc = "vertex_deform_type" /\ pos' = pos + 1
          /\ index_size \notin {1, 2, 4})
         => outcome' = "Err" /\ err' = <<"TypeError", "IndexSizeMismatch">>
    /\ err' = <<"InvalidWeightDeformType">> => index_size \in {1, 2, 4}
    /\ (entry = "Surfaces::parse" /\ err = NoError /\ err' \in C15_WidthError)
         => /\ err' = <<"Type", "IndexSizeMismatch">>
            /\ pc = "surface" /\ size >= 1 /\ pos' = 4

\* C15: every step of a vertex or surface section checks the width there only
C15_WidthCheckedInRecord ==
    [][(entry \in {"Vertices::parse", "Surfaces::parse"}) => C15_Step]_vars

\* a vertex with the width 3 and the tag 255 failed with IndexSizeMismatch
C15_Witness ==
    /\ entry = "Vertices::parse"
    /\ index_size = 3
    /\ last_read = "vertex_deform_type" /\ buf = <<255>>
    /\ err = <<"TypeError", "IndexSizeMismatch">>

====
